---- MODULE Spec2Model ----
(***************************************************************************)
(* ParleyPy: the request / pagination engine of class Parley and the       *)
(* domain classes built on it (src/ParleyPy/parliament.py).                *)
(*                                                                         *)
(* One top-level call runs at a time (the library is single threaded).     *)
(* Every HTTP GET is one step; the upstream answers each request when it   *)
(* is issued.  `requests` is the transport's call log.                     *)
(*                                                                         *)
(* Python values:                                                          *)
(*   kwargs            a sequence of <<key, value>> pairs (insertion       *)
(*                     ordered dict, keys unique)                          *)
(*   a JSON object     a record; a key is present iff it is in DOMAIN      *)
(*   a JSON array      a sequence                                          *)
(*   None / no value   the empty sequence; a value v is held as <<v>>      *)
(***************************************************************************)
EXTENDS Integers, Sequences, FiniteSets, TLC

VARIABLES
    page_size_max,   \* Parley.page_size_max
    base_endpoint,   \* Parley.base_endpoint
    upstream,        \* the remote service: windowed resource -> its records
    op,              \* the top-level operation being executed ("" before the call)
    pc,              \* "idle" | the function about to issue a request | "done"
    endpoint,        \* argument `endpoint` of the innermost pagination frame
    kwargs,          \* argument `kwargs` of the innermost pagination frame
    frames,          \* `response` of every pagination frame so far, outermost first
    requests,        \* transport log: [url, status, body] of every GET issued
    local,           \* locals of the domain method being executed
    outcome,         \* "pending" | "returned" | the exception raised
    result           \* <<value>> returned to the caller, <<>> for None / nothing

vars == <<page_size_max, base_endpoint, upstream, op, pc, endpoint, kwargs,
          frames, requests, local, outcome, result>>

----------------------------------------------------------------------------
(* Bounds of the model *)

MaxPageSize == 2        \* page_size_max ranges over 1..MaxPageSize
MaxRecords == 3         \* records of one upstream resource: 0..MaxRecords
MaxTake == 2            \* caller supplied Take: 0..MaxTake
MaxSkip == 1            \* caller supplied Skip: 0..MaxSkip
MaxParents == 2         \* length of a list of parent ids: 0..MaxParents
MaxParentId == 2        \* parent ids: 1..MaxParentId
MaxTypes == 3           \* length of a list of type records: 0..MaxTypes
MaxTypeId == 2          \* ids of type records: 1..MaxTypeId
MaxDivisions == 2       \* length of a division search result: 0..MaxDivisions
MaxDivisionId == 2      \* DivisionId of a division: 1..MaxDivisionId
RecursionLimit == 5     \* interpreter's limit on nested calls (sys.getrecursionlimit())

----------------------------------------------------------------------------
(* Python helpers *)

None == <<>>

RECURSIVE Concat(_)
\* list.extend applied along the unwinding recursion: the frames' items, in order
Concat(ss) == IF ss = <<>> THEN <<>> ELSE Head(ss) \o Concat(Tail(ss))

Keys(kw) == {kw[i][1] : i \in 1..Len(kw)}

\* dict lookup with default, the value part of kwargs.pop(key, default)
Get(kw, key, default) ==
    IF key \in Keys(kw)
    THEN LET i == CHOOSE j \in 1..Len(kw) : kw[j][1] = key IN kw[i][2]
    ELSE default

\* the dict left behind by kwargs.pop(key, ...)
Without(kw, key) == SelectSeq(kw, LAMBDA p : p[1] # key)

Min(a, b) == IF a < b THEN a ELSE b

\* variant: an existing key keeps its value (dict.setdefault)
DictSetDefault(d, key, value) ==
    IF key \in Keys(d) THEN d ELSE Append(d, <<key, value>>)

\* d[key] = value on an insertion ordered dict
DictSet(d, key, value) ==
    IF key \in Keys(d)
    THEN [i \in 1..Len(d) |-> IF d[i][1] = key THEN <<key, value>> ELSE d[i]]
    ELSE Append(d, <<key, value>>)

----------------------------------------------------------------------------
(* Parley.__fetch__ *)

\* the URL of one GET: base + endpoint [+ "?" + urlencode(kwargs)]
Url(base, ep, kw) ==
    [base |-> base, path |-> ep,
     query |-> IF Len(kw) > 0 THEN kw ELSE <<>>]

Statuses == {200, 404, 500}

\* variant: only server errors raise
RaisesForStatusServerOnly(status) == status >= 500 /\ status < 600

\* requests.Response.raise_for_status: 4xx and 5xx raise HTTPError
RaisesForStatus(status) == status >= 400 /\ status < 600

\* control leaves the call by an exception: nothing is returned
Raise(exc) == pc' = "done" /\ outcome' = exc /\ result' = None

\* control leaves the call by `return value`
Return(value) == pc' = "done" /\ outcome' = "returned" /\ result' = <<value>>

\* variant: the last page's body carries the accumulated items
UnwindLast(fs) ==
    [fs[Len(fs)] EXCEPT !.items = Concat([i \in 1..Len(fs) |-> fs[i].items])]

\* the body returned by the outermost frame once every nested call has
\* returned: the first page's body, its items extended by all later pages'
Unwind(fs) ==
    [fs[1] EXCEPT !.items = Concat([i \in 1..Len(fs) |-> fs[i].items])]

----------------------------------------------------------------------------
(* The upstream of a link-paginated resource.  It answers the k-th request *)
(* of a call with any status and any page: 0..page_size_max+1 fresh items, *)
(* and either no links field or one of LinkLists.                          *)

LinkLists ==
    { <<>>,
      <<[rel |-> "self", href |-> "h0"], [rel |-> "page.next", href |-> "h1"]>>,
      <<[rel |-> "page.next", href |-> "h2"], [rel |-> "page.next", href |-> "h1"]>> }

LinkItems(k, n) == [j \in 1..n |-> [page |-> k, ix |-> j]]

LinkBodies(k) ==
    UNION { { [items |-> LinkItems(k, n)] } \cup
            { [items |-> LinkItems(k, n), links |-> ls] : ls \in LinkLists }
          : n \in 0..(page_size_max + 1) }

LinkResponses(k) ==
    { [status |-> 200, body |-> b] : b \in LinkBodies(k) } \cup
    { [status |-> s, body |-> [items |-> <<>>, links |-> <<>>]] : s \in Statuses \ {200} }

----------------------------------------------------------------------------
(* Parley.__paginated_fetch__ : one frame of the recursion *)

RECURSIVE NextPageUrl(_)
\* the href of the first link whose rel is "page.next", '' when there is none
NextPageUrl(links) ==
    IF links = <<>> THEN ""
    ELSE IF Head(links).rel = "page.next" THEN Head(links).href
    ELSE NextPageUrl(Tail(links))

\* variant: a page without a page.next link also ends the fetch
LastLinkedPageOrNoNext(response) ==
    Len(response.items) < page_size_max \/ NextPageUrl(response.links) = ""

\* variant: a full page also ends the fetch
LastLinkedPageInclusive(response) == Len(response.items) <= page_size_max

\* the termination test of __paginated_fetch__
LastLinkedPage(response) == Len(response.items) < page_size_max

\* variant: the item count is tested before the links are read, so a short
\* page is returned without looking at its links
PaginatedFetchFrameCountFirst(res) ==
    LET request == [url |-> Url(base_endpoint, endpoint, kwargs), status |-> res.status,
                    body |-> res.body]
    IN
    IF RaisesForStatus(res.status)
    THEN [request |-> request, kind |-> "raise", exc |-> "HTTPError"]
    ELSE IF LastLinkedPage(res.body)
    THEN [request |-> request, kind |-> "return", response |-> res.body]
    ELSE IF "links" \notin DOMAIN res.body
    THEN [request |-> request, kind |-> "raise", exc |-> "KeyError"]
    ELSE [request |-> request, kind |-> "recurse", response |-> res.body,
          endpoint |-> NextPageUrl(res.body.links), kwargs |-> <<>>]

PaginatedFetchFrame(res) ==
    LET request == [url |-> Url(base_endpoint, endpoint, kwargs), status |-> res.status,
                    body |-> res.body]
    IN
    IF RaisesForStatus(res.status)
    THEN [request |-> request, kind |-> "raise", exc |-> "HTTPError"]
    ELSE IF "links" \notin DOMAIN res.body
    THEN [request |-> request, kind |-> "raise", exc |-> "KeyError"]
    ELSE LET response == res.body
             next_page_url == NextPageUrl(response.links)
         IN  IF LastLinkedPage(response)
             THEN [request |-> request, kind |-> "return", response |-> response]
             ELSE [request |-> request, kind |-> "recurse", response |-> response,
                   endpoint |-> next_page_url, kwargs |-> <<>>]

\* What one frame of either pagination does to the state.  An exception
\* unwinds every frame and leaves the top-level call; a nested call beyond the
\* interpreter's recursion limit raises RecursionError before it requests
\* anything; on_return is what the caller of the pagination does with the
\* body the outermost frame returns, Unwound(f).
Unwound(f) == Unwind(Append(frames, f.response))

Frame(f, on_return) ==
    /\ requests' = Append(requests, f.request)
    /\ CASE f.kind = "raise" ->
              /\ Raise(f.exc)
              /\ frames' = <<>>
              /\ UNCHANGED <<endpoint, kwargs, local>>
         [] f.kind = "return" ->
              on_return
         [] f.kind = "recurse" ->
              IF Len(frames) + 2 > RecursionLimit
              THEN /\ Raise("RecursionError")
                   /\ frames' = <<>>
                   /\ UNCHANGED <<endpoint, kwargs, local>>
              ELSE /\ frames' = Append(frames, f.response)
                   /\ endpoint' = f.endpoint
                   /\ kwargs' = f.kwargs
                   /\ UNCHANGED <<pc, outcome, result, local>>

\* a pagination called directly: its body is the result of the call
ReturnBody(body) ==
    /\ Return(body)
    /\ frames' = <<>>
    /\ UNCHANGED <<endpoint, kwargs, local>>

CallerParams == { <<>>, << <<"House", 1>> >> }

CallPaginatedFetch ==
    /\ pc = "idle"
    /\ \E kw \in CallerParams :
         /\ op' = "__paginated_fetch__"
         /\ pc' = "__paginated_fetch__"
         /\ endpoint' = "Members/Search"
         /\ kwargs' = kw
         /\ local' = [endpoint |-> "Members/Search", kwargs |-> kw]
    /\ UNCHANGED <<page_size_max, base_endpoint, upstream, frames, requests,
                   outcome, result>>

PaginatedFetch ==
    /\ pc = "__paginated_fetch__"
    /\ \E res \in LinkResponses(Len(requests) + 1) :
         LET f == PaginatedFetchFrame(res) IN Frame(f, ReturnBody(Unwound(f)))
    /\ UNCHANGED <<page_size_max, base_endpoint, upstream, op>>

----------------------------------------------------------------------------
(* The upstream of a windowed resource r: the records upstream[r]; a       *)
(* request for (Skip, Take) is answered with records Skip+1 .. Skip+Take   *)
(* as far as they exist.                                                   *)

RECURSIVE Encode(_)
Encode(kw) ==
    IF kw = <<>> THEN ""
    ELSE "&" \o Head(kw)[1] \o "=" \o ToString(Head(kw)[2]) \o Encode(Tail(kw))

\* the resource a windowed request addresses: its path and its filter
ResourceOf(ep, filter) == ep \o "?" \o Encode(filter)

\* n records of resource r (`of` is the model's note of where a record lives)
Records(r, n) == [i \in 1..n |-> [of |-> r, id |-> i]]

\* a resource that lists one and the same record n times
Repeated(r, n) == [i \in 1..n |-> [of |-> r, id |-> 1]]

WindowBody(r, skip, take) ==
    LET total == Len(upstream[r])
        n == IF skip >= total THEN 0 ELSE Min(take, total - skip)
    IN  [items |-> [i \in 1..n |-> upstream[r][skip + i]], totalResults |-> total]

----------------------------------------------------------------------------
(* Parley.__exhaustive_fetch__ : one frame of the recursion *)

\* variant: a full window also ends the fetch
LastWindowInclusive(response, take_pages) == Len(response.items) <= take_pages

\* the termination test of __exhaustive_fetch__
LastWindow(response, take_pages) == Len(response.items) < take_pages

\* variant: the window advances by one record
NextSkipByOne(skip_pages, take_pages) == skip_pages + 1

\* skip_pages += take_pages
NextSkip(skip_pages, take_pages) == skip_pages + take_pages

ExhaustiveFetchFrame(status) ==
    LET skip_pages == Get(kwargs, "Skip", 0)
        take_pages == Get(kwargs, "Take", page_size_max)
        rest == Without(Without(kwargs, "Skip"), "Take")
        window(s) == << <<"Skip", s>>, <<"Take", take_pages>> >> \o rest
        response == WindowBody(ResourceOf(endpoint, rest), skip_pages, take_pages)
        request == [url |-> Url(base_endpoint, endpoint, window(skip_pages)), status |-> status,
                    body |-> IF status = 200 THEN response ELSE [items |-> <<>>]]
    IN  IF RaisesForStatus(status)
        THEN [request |-> request, kind |-> "raise", exc |-> "HTTPError"]
        ELSE IF LastWindow(response, take_pages)
        THEN [request |-> request, kind |-> "return", response |-> response]
        ELSE [request |-> request, kind |-> "recurse", response |-> response,
              endpoint |-> endpoint, kwargs |-> window(NextSkip(skip_pages, take_pages))]

\* the kwargs a caller may pass: an optional Skip, a filter, an optional Take
WindowArgs ==
    { s \o << <<"Status", 1>> >> \o t :
        s \in {<<>>} \cup { << <<"Skip", n>> >> : n \in 0..MaxSkip },
        t \in {<<>>} \cup { << <<"Take", n>> >> : n \in 0..MaxTake } }

CallExhaustiveFetch ==
    /\ pc = "idle"
    /\ \E kw \in WindowArgs, total \in 0..MaxRecords :
         /\ op' = "__exhaustive_fetch__"
         /\ pc' = "__exhaustive_fetch__"
         /\ endpoint' = "Committees"
         /\ kwargs' = kw
         /\ local' = [endpoint |-> "Committees", kwargs |-> kw]
         /\ LET r == ResourceOf("Committees", << <<"Status", 1>> >>) IN
            \E records \in {Records(r, total), Repeated(r, total)} :
                upstream' = (r :> records)
    /\ UNCHANGED <<page_size_max, base_endpoint, frames, requests, outcome, result>>

ExhaustiveFetch ==
    /\ pc = "__exhaustive_fetch__"
    /\ op = "__exhaustive_fetch__"
    /\ \E status \in Statuses :
         LET f == ExhaustiveFetchFrame(status) IN Frame(f, ReturnBody(Unwound(f)))
    /\ UNCHANGED <<page_size_max, base_endpoint, upstream, op>>

----------------------------------------------------------------------------
(* The pagination engine: a Parley object and one call of either strategy *)

Init ==
    /\ page_size_max \in 1..MaxPageSize
    /\ base_endpoint = "https://api/"
    /\ upstream = <<>>
    /\ op = ""
    /\ pc = "idle"
    /\ endpoint = ""
    /\ kwargs = <<>>
    /\ frames = <<>>
    /\ requests = <<>>
    /\ local = <<>>
    /\ outcome = "pending"
    /\ result = None

Next ==
    \/ CallPaginatedFetch
    \/ PaginatedFetch
    \/ CallExhaustiveFetch
    \/ ExhaustiveFetch

Spec == Init /\ [][Next]_vars

----------------------------------------------------------------------------
(* Properties of the pagination engine *)

Served(i) == requests[i].body
Ok(i) == requests[i].status = 200
AllOk == \A i \in 1..Len(requests) : Ok(i)
ItemsServed == Concat([i \in 1..Len(requests) |-> Served(i).items])

\* the i-th answer is a full linked page carrying a page.next link
FullLinkedPage(i) ==
    /\ Ok(i)
    /\ "links" \in DOMAIN Served(i)
    /\ Len(Served(i).items) = page_size_max
    /\ NextPageUrl(Served(i).links) # ""

\* the i-th answer is a short linked page
ShortLinkedPage(i) ==
    /\ Ok(i)
    /\ "links" \in DOMAIN Served(i)
    /\ Len(Served(i).items) < page_size_max

\* C1 (link pagination completeness): while the upstream has served only
\* full pages with a page.next link, the fetch goes on with a request for
\* the last page's page.next href; once the upstream has served n such pages
\* followed by one short page of k items, the fetch has returned after
\* exactly these n+1 requests, each but the first addressed to the page.next
\* href of the page before it, and the items returned are the n*page_size_max
\* + k items of the pages, concatenated in the order served.
C1_LinkCompleteness ==
    op = "__paginated_fetch__" /\ requests # <<>> =>
        LET m == Len(requests) IN
        /\ (\A i \in 1..m : FullLinkedPage(i)) /\ m < RecursionLimit =>
               /\ pc = "__paginated_fetch__"
               /\ endpoint = NextPageUrl(Served(m).links)
        /\ (\A i \in 1..(m - 1) : FullLinkedPage(i)) /\ ShortLinkedPage(m) =>
               /\ pc = "done"
               /\ outcome = "returned"
               /\ \A i \in 2..m :
                      requests[i].url.path = NextPageUrl(Served(i - 1).links)
               /\ result[1].items = ItemsServed
               /\ Len(result[1].items) =
                      (m - 1) * page_size_max + Len(Served(m).items)

\* two full pages and a short, non-empty one have been served and returned
C1_Witness ==
    /\ op = "__paginated_fetch__"
    /\ Len(requests) = 3
    /\ FullLinkedPage(1) /\ FullLinkedPage(2) /\ ShortLinkedPage(3)
    /\ Len(Served(3).items) > 0
    /\ outcome = "returned"

\* the arguments of the call, read off its first request
Skip0 == Get(requests[1].url.query, "Skip", 0)
Take0 == Get(requests[1].url.query, "Take", 0)
Total == Len(upstream[ResourceOf(requests[1].url.path,
                Without(Without(requests[1].url.query, "Skip"), "Take"))])

\* the number of results the call ranges over: those from the caller's Skip
\* on, which is all of them for the default Skip = 0
ResultCount == IF Skip0 >= Total THEN 0 ELSE Total - Skip0

C8_WindowTerminates ==
    op = "__exhaustive_fetch__" /\ pc = "done" /\ AllOk => outcome = "returned"

\* the part of C8 that the code satisfies: with Take >= 1 the fetch returns
C8_TerminatesForPositiveTake ==
    op = "__exhaustive_fetch__" /\ pc = "done" /\ AllOk /\ Take0 >= 1
        => outcome = "returned"

\* C10 (no page.next means final page): a page answered with a links field
\* holding no page.next entry is the last request of the fetch, and the fetch
\* returns, whatever the number of items on the page.
C10_NoNextIsFinal ==
    op = "__paginated_fetch__" =>
        \A i \in 1..Len(requests) :
            ( /\ Ok(i)
              /\ "links" \in DOMAIN Served(i)
              /\ NextPageUrl(Served(i).links) = "" ) =>
                /\ i = Len(requests)
                /\ pc = "done"
                /\ outcome = "returned"

\* the i-th answer is a linked page: a 200 whose body has a links field
LinkedPage(i) == Ok(i) /\ "links" \in DOMAIN Served(i)

\* C11 (the item count alone decides): a linked page with fewer than
\* page_size_max items is the last request of the fetch, which returns,
\* whether or not the page carries a page.next link; a linked page with at
\* least page_size_max items is followed by one more request, addressed to
\* what the scan of its links left in next_page_url ('' when it has no
\* page.next link), as long as the interpreter's recursion limit allows.
C11_ItemCountDecides ==
    op = "__paginated_fetch__" =>
        \A i \in 1..Len(requests) :
            LinkedPage(i) =>
                /\ Len(Served(i).items) < page_size_max =>
                      /\ i = Len(requests)
                      /\ pc = "done"
                      /\ outcome = "returned"
                /\ Len(Served(i).items) >= page_size_max /\ i < RecursionLimit =>
                      IF i < Len(requests)
                      THEN requests[i + 1].url.path = NextPageUrl(Served(i).links)
                      ELSE /\ pc = "__paginated_fetch__"
                           /\ endpoint = NextPageUrl(Served(i).links)

\* a short page carrying a page.next link ended the fetch, after a full page
\* without one had been followed by a request for ''
C11_Witness ==
    /\ op = "__paginated_fetch__"
    /\ Len(requests) = 2
    /\ LinkedPage(1) /\ LinkedPage(2)
    /\ Len(Served(1).items) = page_size_max
    /\ NextPageUrl(Served(1).links) = ""
    /\ requests[2].url.path = ""
    /\ Len(Served(2).items) < page_size_max
    /\ NextPageUrl(Served(2).links) # ""
    /\ outcome = "returned"

\* the arguments of the window fetch as its caller gave them
CallerSkip == Get(local.kwargs, "Skip", 0)
CallerTake == Get(local.kwargs, "Take", page_size_max)
CallerRest == Without(Without(local.kwargs, "Skip"), "Take")

\* the records of s from position m + 1 on
From(s, m) == IF m >= Len(s) THEN <<>> ELSE SubSeq(s, m + 1, Len(s))

\* C12 (the window advances by Take): the i-th request of a window fetch
\* goes to the caller's endpoint with Skip = skip0 + (i-1)*take, Take = take
\* and the caller's other parameters unchanged (skip0 and take as given by
\* the caller, 0 and page_size_max by default); what a fetch returns is the
\* pages' items concatenated in the order served, duplicates included; and
\* with take >= 1 and no failing request the fetch returns exactly the
\* upstream's records from position skip0 on, in upstream order.
C12_WindowAdvance ==
    op = "__exhaustive_fetch__" =>
        /\ \A i \in 1..Len(requests) :
              /\ requests[i].url.path = local.endpoint
              /\ requests[i].url.query =
                     << <<"Skip", CallerSkip + (i - 1) * CallerTake>>,
                        <<"Take", CallerTake>> >> \o CallerRest
        /\ outcome = "returned" => result[1].items = ItemsServed
        /\ pc = "done" /\ AllOk /\ CallerTake >= 1 =>
              /\ outcome = "returned"
              /\ result[1].items =
                     From(upstream[ResourceOf(local.endpoint, CallerRest)], CallerSkip)

\* Skip = 1, Take = 1 over three copies of one record: three requests with
\* Skip 1, 2, 3 and both remaining copies returned
C12_Witness ==
    /\ op = "__exhaustive_fetch__" /\ outcome = "returned"
    /\ CallerSkip = 1 /\ CallerTake = 1
    /\ Len(requests) = 3
    /\ Get(requests[3].url.query, "Skip", 0) = 3
    /\ Len(result[1].items) = 2
    /\ result[1].items[1] = result[1].items[2]

\* C13 (a page without links is malformed): a 200 answer whose body has no
\* links field is the last request of the fetch, which has failed with the
\* error raised by reading response["links"] (KeyError) and returned
\* nothing, whatever the number of items on the page and wherever it comes in
\* the chain.
C13_MissingLinksFails ==
    op = "__paginated_fetch__" =>
        \A i \in 1..Len(requests) :
            Ok(i) /\ "links" \notin DOMAIN Served(i) =>
                /\ i = Len(requests)
                /\ pc = "done"
                /\ outcome = "KeyError"
                /\ result = None

\* a full page was followed by a short page without links: the fetch failed
C13_Witness ==
    /\ op = "__paginated_fetch__"
    /\ Len(requests) = 2
    /\ FullLinkedPage(1)
    /\ Ok(2) /\ "links" \notin DOMAIN Served(2)
    /\ Len(Served(2).items) < page_size_max
    /\ outcome = "KeyError" /\ result = None

\* the first page was short and had no links: the fetch failed
C13_WitnessFirstPage ==
    /\ op = "__paginated_fetch__"
    /\ Len(requests) = 1
    /\ Ok(1) /\ "links" \notin DOMAIN Served(1)
    /\ Served(1).items = <<>>
    /\ outcome = "KeyError"

\* the links of the i-th answer hold a page.next entry
HasPageNext(i) ==
    \E j \in 1..Len(Served(i).links) : Served(i).links[j].rel = "page.next"

\* C14 (only the first request carries the caller's parameters): the first
\* request of a link-following fetch goes to the caller's endpoint with the
\* caller's query parameters; every later request follows a page.next entry of
\* the answer just before it, targets the href of the first such entry, and
\* has no query parameters.
C14_FollowsPageNext ==
    op = "__paginated_fetch__" =>
        \A i \in 1..Len(requests) :
            IF i = 1
            THEN /\ requests[i].url.path = local.endpoint
                 /\ requests[i].url.query = local.kwargs
            ELSE /\ HasPageNext(i - 1)
                 /\ requests[i].url.path = NextPageUrl(Served(i - 1).links)
                 /\ requests[i].url.query = <<>>

\* the part of C14 that the code satisfies: the caller's parameters go on the
\* first request only, and a later request targets the first page.next href
\* of the answer before it when there is one (and '' when there is none)
C14_FollowsNextPageUrl ==
    op = "__paginated_fetch__" =>
        \A i \in 1..Len(requests) :
            IF i = 1
            THEN /\ requests[i].url.path = local.endpoint
                 /\ requests[i].url.query = local.kwargs
            ELSE /\ requests[i].url.path = NextPageUrl(Served(i - 1).links)
                 /\ requests[i].url.query = <<>>

\* C17 (the result is the first page with its items extended): the body
\* returned by either pagination has the fields of the first page served,
\* every field other than items has the first page's value, and items holds
\* the items of all pages served, in order.
C17_FirstPageFrame ==
    op \in {"__paginated_fetch__", "__exhaustive_fetch__"} /\ outcome = "returned" =>
        /\ DOMAIN result[1] = DOMAIN Served(1)
        /\ \A f \in DOMAIN Served(1) \ {"items"} : result[1][f] = Served(1)[f]
        /\ result[1].items = ItemsServed

\* a link-following fetch returned after two pages whose links differ
C17_Witness ==
    /\ op = "__paginated_fetch__"
    /\ outcome = "returned"
    /\ Len(requests) = 2
    /\ Served(1).links # Served(2).links
    /\ Served(2).items # <<>>

\* a windowed fetch returned after three pages
C17_WitnessWindow ==
    /\ op = "__exhaustive_fetch__"
    /\ outcome = "returned"
    /\ Len(requests) = 3
    /\ Len(result[1].items) > Len(Served(1).items)

----------------------------------------------------------------------------
(* One-to-many enrichment: Committees.get_committee_business,              *)
(* Committees.get_committee_members, Bills.get_stages.                     *)
(* PAGE_SIZE_MAX of the two classes (30, 999) is scaled to 1..MaxPageSize  *)
(* so that a child list spans several windows.                             *)

CommitteesBase == "https://committees-api.parliament.uk/api/"
BillsBase == "https://bills-api.parliament.uk/api/"

EnrichOps == {"get_committee_business", "get_committee_members", "get_stages"}

\* the endpoint and the kwargs of the child fetch for parent id c
ChildEndpoint(name, c) ==
    CASE name = "get_committee_business" -> "CommitteeBusiness"
      [] name = "get_committee_members" -> "Committees/" \o ToString(c) \o "/Members"
      [] name = "get_stages" -> "v1/Bills/" \o ToString(c) \o "/Stages"

ChildKwargs(name, c) ==
    IF name = "get_committee_business" THEN << <<"CommitteeId", c>> >> ELSE <<>>

\* the key under which each child record is tagged with its parent's id
TagKey(name) == IF name = "get_stages" THEN "billId" ELSE "committeeId"

\* variant: the record is left as fetched
UpdateNothing(record, key, value) == record

\* dict.update({key: value})
Update(record, key, value) ==
    [k \in DOMAIN record \cup {key} |-> IF k = key THEN value ELSE record[k]]

\* the argument `committee_ids` / `bill_ids`: an int or a list of ints
ParentIds == 1..MaxParentId

RECURSIVE SeqsUpTo(_, _)
SeqsUpTo(S, n) ==
    IF n = 0 THEN {<<>>}
    ELSE LET shorter == SeqsUpTo(S, n - 1)
         IN  shorter \cup { Append(q, x) : q \in shorter, x \in S }

IdArgs ==
    { [type |-> "int", int |-> c, list |-> <<>>] : c \in ParentIds } \cup
    { [type |-> "list", int |-> 0, list |-> ids] : ids \in SeqsUpTo(ParentIds, MaxParents) }

\* if isinstance(ids, int): ids = [ids]
AsList(arg) == IF arg.type = "int" THEN <<arg.int>> ELSE arg.list

ChildResource(name, c) == ResourceOf(ChildEndpoint(name, c), ChildKwargs(name, c))

\* the end of an enrichment method: get_committee_business and get_stages
\* return the list built, get_committee_members has no return statement
EnrichReturn(name, out) ==
    IF name = "get_committee_members"
    THEN pc' = "done" /\ outcome' = "returned" /\ result' = None
    ELSE Return(out)

CallEnrich(name) ==
    /\ pc = "idle"
    /\ \E arg \in IdArgs, count \in [ParentIds -> 0..MaxRecords] :
         LET ids == AsList(arg) IN
         /\ op' = name
         /\ upstream' = [r \in {ChildResource(name, c) : c \in ParentIds} |->
                           LET c == CHOOSE d \in ParentIds : ChildResource(name, d) = r
                           IN  Records(r, count[c])]
         /\ local' = [arg |-> arg, ids |-> ids, i |-> 1, out |-> <<>>]
         /\ IF ids = <<>>
            THEN EnrichReturn(name, <<>>) /\ UNCHANGED <<endpoint, kwargs>>
            ELSE /\ pc' = "__exhaustive_fetch__"
                 /\ endpoint' = ChildEndpoint(name, ids[1])
                 /\ kwargs' = ChildKwargs(name, ids[1])
                 /\ UNCHANGED <<outcome, result>>
    /\ UNCHANGED <<page_size_max, base_endpoint, frames, requests>>

CallGetCommitteeBusiness ==
    base_endpoint = CommitteesBase /\ CallEnrich("get_committee_business")

CallGetCommitteeMembers ==
    base_endpoint = CommitteesBase /\ CallEnrich("get_committee_members")

CallGetStages ==
    base_endpoint = BillsBase /\ CallEnrich("get_stages")

\* the loop body after the child fetch has returned: tag, extend, go on
\* with the next parent or leave the method
EnrichChildren(body) ==
    LET c == local.ids[local.i]
        tagged == [j \in 1..Len(body.items) |-> Update(body.items[j], TagKey(op), c)]
        out == local.out \o tagged
    IN  /\ frames' = <<>>
        /\ IF local.i < Len(local.ids)
           THEN /\ local' = [local EXCEPT !.i = @ + 1, !.out = out]
                /\ endpoint' = ChildEndpoint(op, local.ids[local.i + 1])
                /\ kwargs' = ChildKwargs(op, local.ids[local.i + 1])
                /\ UNCHANGED <<pc, outcome, result>>
           ELSE /\ local' = [local EXCEPT !.out = out]
                /\ EnrichReturn(op, out)
                /\ UNCHANGED <<endpoint, kwargs>>

FetchChildren ==
    /\ pc = "__exhaustive_fetch__"
    /\ op \in EnrichOps
    /\ \E status \in Statuses :
         LET f == ExhaustiveFetchFrame(status) IN Frame(f, EnrichChildren(Unwound(f)))
    /\ UNCHANGED <<page_size_max, base_endpoint, upstream, op>>

InitEnrich ==
    /\ page_size_max \in 1..MaxPageSize
    /\ base_endpoint \in {CommitteesBase, BillsBase}
    /\ upstream = <<>>
    /\ op = ""
    /\ pc = "idle"
    /\ endpoint = ""
    /\ kwargs = <<>>
    /\ frames = <<>>
    /\ requests = <<>>
    /\ local = <<>>
    /\ outcome = "pending"
    /\ result = None

NextEnrich ==
    \/ CallGetCommitteeBusiness
    \/ CallGetCommitteeMembers
    \/ CallGetStages
    \/ FetchChildren

SpecEnrich == InitEnrich /\ [][NextEnrich]_vars

----------------------------------------------------------------------------
(* Properties of the one-to-many enrichment *)

\* the records the upstream holds for parent c, each with key TagKey set to c
ChildrenOf(name, c) ==
    LET rs == upstream[ChildResource(name, c)]
    IN  [j \in 1..Len(rs) |->
            IF name = "get_stages"
            THEN [of |-> rs[j].of, id |-> rs[j].id, billId |-> c]
            ELSE [of |-> rs[j].of, id |-> rs[j].id, committeeId |-> c]]

\* all parents' children, parent by parent in the order of the id list
AllChildren(name, ids) == Concat([i \in 1..Len(ids) |-> ChildrenOf(name, ids[i])])

\* C5 (enrichment tagging): get_committee_business and get_stages, when no
\* request fails, return one flat list: the children of the first parent id
\* in upstream order, then those of the second, and so on, each child record
\* carrying the id of the parent it was fetched for.
C5_EnrichmentTagging ==
    ( /\ op \in {"get_committee_business", "get_stages"}
      /\ pc = "done" /\ AllOk ) =>
        /\ outcome = "returned"
        /\ result = <<AllChildren(op, AsList(local.arg))>>

\* parents [1, 2] with one and two children: three records tagged 1, 2, 2
C5_Witness ==
    /\ op = "get_committee_business" /\ pc = "done" /\ outcome = "returned"
    /\ local.arg.type = "list" /\ local.arg.list = <<1, 2>>
    /\ Len(upstream[ChildResource(op, 1)]) = 1
    /\ Len(upstream[ChildResource(op, 2)]) = 2
    /\ Len(result[1]) = 3
    /\ result[1][1].committeeId = 1
    /\ result[1][2].committeeId = 2
    /\ result[1][3].committeeId = 2

\* C6 (get_committee_members returns the combined sequence): when no request
\* fails and members were fetched, the call returns all members of all given
\* committees, each tagged with committeeId of the committee it was fetched
\* for.
C6_MembersReturned ==
    ( op = "get_committee_members" /\ pc = "done" /\ AllOk /\ local.out # <<>> ) =>
        /\ outcome = "returned"
        /\ result = <<AllChildren(op, AsList(local.arg))>>

\* what the code does build before it falls off the end of the method
C6_MembersBuiltNotReturned ==
    ( op = "get_committee_members" /\ pc = "done" /\ AllOk ) =>
        /\ outcome = "returned"
        /\ result = None
        /\ local.out = AllChildren(op, AsList(local.arg))

----------------------------------------------------------------------------
(* Divisions.__init__                                                      *)
(* A str is a sequence of one-character strings.                           *)

UpperChars == <<"A", "B", "C", "D", "E", "F", "G", "H", "I", "J", "K", "L", "M",
                "N", "O", "P", "Q", "R", "S", "T", "U", "V", "W", "X", "Y", "Z">>
LowerChars == <<"a", "b", "c", "d", "e", "f", "g", "h", "i", "j", "k", "l", "m",
                "n", "o", "p", "q", "r", "s", "t", "u", "v", "w", "x", "y", "z">>

\* variant: the string is compared as given
LowerNothing(str) == str

\* str.lower()
Lower(str) ==
    [i \in 1..Len(str) |->
        IF \E k \in 1..Len(UpperChars) : UpperChars[k] = str[i]
        THEN LowerChars[CHOOSE k \in 1..Len(UpperChars) : UpperChars[k] = str[i]]
        ELSE str[i]]

COMMONS_ENDPOINT ==
    [base |-> "https://commonsvotes-api.parliament.uk/data/",
     search |-> "divisions.json/search",
     division |-> "division/{division_id}.json"]

LORDS_ENDPOINT ==
    [base |-> "https://lordsvotes-api.parliament.uk/data/",
     search |-> "Divisions/search"]

DivisionsPageSizeMax == 999

Commons == <<"c", "o", "m", "m", "o", "n", "s">>
Lords == <<"l", "o", "r", "d", "s">>

RECURSIVE CaseVariants(_)
\* every spelling of a lower case word in upper and lower case letters
CaseVariants(word) ==
    IF word = <<>> THEN {<<>>}
    ELSE LET k == CHOOSE j \in 1..Len(LowerChars) : LowerChars[j] = Head(word)
         IN  { <<c>> \o w : c \in {LowerChars[k], UpperChars[k]},
                             w \in CaseVariants(Tail(word)) }

\* the values of `house` tried: all spellings of the two houses, and others
Houses ==
    CaseVariants(Commons) \cup CaseVariants(Lords) \cup
    { <<>>,
      <<"u", "p", "p", "e", "r">>,
      <<"U", "P", "P", "E", "R">>,
      <<"c", "o", "m", "m", "o", "n">>,
      <<"c", "o", "m", "m", "o", "n", "s", " ">>,
      <<"C", "o", "m", "m", "o", "n", "s", "s">>,
      <<"c", "0", "m", "m", "0", "n", "s">>,
      <<"l", "o", "r", "d">>,
      <<" ", "L", "o", "r", "d", "s">>,
      <<"L", "o", "r", "d", "-", "s">> }

DivisionsInit ==
    /\ pc = "idle"
    /\ \E house \in Houses :
         /\ op' = "Divisions.__init__"
         /\ IF Lower(house) = Commons
            THEN /\ local' = [house |-> house, ENDPOINT |-> COMMONS_ENDPOINT]
                 /\ base_endpoint' = COMMONS_ENDPOINT.base
                 /\ page_size_max' = DivisionsPageSizeMax
                 /\ pc' = "constructed"
                 /\ UNCHANGED <<outcome, result>>
            ELSE IF Lower(house) = Lords
            THEN /\ local' = [house |-> house, ENDPOINT |-> LORDS_ENDPOINT]
                 /\ base_endpoint' = LORDS_ENDPOINT.base
                 /\ page_size_max' = DivisionsPageSizeMax
                 /\ pc' = "constructed"
                 /\ UNCHANGED <<outcome, result>>
            ELSE /\ local' = [house |-> house]
                 /\ Raise("ValueError")
                 /\ UNCHANGED <<base_endpoint, page_size_max>>
    /\ UNCHANGED <<upstream, endpoint, kwargs, frames, requests>>

\* the (start_date, end_date) pairs get_divisions is called with
DivisionDates ==
    { [start_date |-> "2024-01-01", end_date |-> "2024-01-31"],
      [start_date |-> "2024-02-01", end_date |-> "2024-01-01"] }

\* the bodies the search endpoint may answer with: a list of divisions
DivisionLists ==
    { [k \in 1..Len(ids) |-> [DivisionId |-> ids[k], Title |-> "division"]]
      : ids \in SeqsUpTo(1..MaxDivisionId, MaxDivisions) }

\* the bodies division/{division_id}.json may answer with: the votes as
\* counted at the time of the request; one body lacks its Noes
DivisionDetails(division_id) ==
    { [DivisionId |-> division_id,
       Ayes |-> <<[MemberId |-> v, of |-> division_id]>>,
       Noes |-> <<[MemberId |-> v + 2, of |-> division_id]>>] : v \in 1..2 } \cup
    { [DivisionId |-> division_id, Ayes |-> <<>>] }

\* what the upstream may answer a request with: a 200 with one of `bodies`,
\* or an error status
Answers(bodies) ==
    { [status |-> 200, body |-> b] : b \in bodies } \cup
    { [status |-> s, body |-> [Message |-> "error"]] : s \in Statuses \ {200} }

\* variant: the placeholder is left in the path
DivisionPathUnformatted(ENDPOINT, division_id) == ENDPOINT.division

\* self.ENDPOINT["division"].format(division_id=division_id), the template
\* being "division/{division_id}.json"
DivisionPath(ENDPOINT, division_id) ==
    IF ENDPOINT.division = "division/{division_id}.json"
    THEN "division/" \o ToString(division_id) \o ".json"
    ELSE ENDPOINT.division

CallGetDivisions ==
    /\ pc = "constructed"
    /\ \E dates \in DivisionDates :
         /\ op' = "get_divisions"
         /\ pc' = "get_divisions"
         /\ local' = [house |-> local.house, ENDPOINT |-> local.ENDPOINT,
                      start_date |-> dates.start_date, end_date |-> dates.end_date,
                      response |-> <<>>, i |-> 1]
         /\ endpoint' = local.ENDPOINT.search
         /\ kwargs' = << <<"startDate", dates.start_date>>,
                         <<"endDate", dates.end_date>>,
                         <<"includeWhenMemberWasTeller", "True">> >>
    /\ UNCHANGED <<page_size_max, base_endpoint, upstream, frames, requests,
                   outcome, result>>

\* the search request, and what follows it up to the first detail request
SearchDivisions ==
    /\ pc = "get_divisions"
    /\ \E res \in Answers(DivisionLists) :
         LET response == res.body IN
         /\ requests' = Append(requests,
                [url |-> Url(base_endpoint, endpoint, kwargs), status |-> res.status,
                 body |-> res.body])
         /\ IF RaisesForStatus(res.status)
            THEN Raise("HTTPError") /\ UNCHANGED <<endpoint, kwargs, local>>
            ELSE IF Lower(local.house) = Lords
            THEN /\ local' = [local EXCEPT !.response = response]
                 /\ Return(response)
                 /\ UNCHANGED <<endpoint, kwargs>>
            ELSE IF response = <<>>
            THEN /\ local' = [local EXCEPT !.response = response]
                 /\ Return(response)
                 /\ UNCHANGED <<endpoint, kwargs>>
            ELSE /\ local' = [local EXCEPT !.response = response]
                 /\ pc' = "__fetch__"
                 /\ endpoint' = DivisionPath(local.ENDPOINT, response[1].DivisionId)
                 /\ kwargs' = <<>>
                 /\ UNCHANGED <<outcome, result>>
    /\ UNCHANGED <<page_size_max, base_endpoint, upstream, op, frames>>

\* one iteration of the loop over the divisions
FetchDivision ==
    /\ pc = "__fetch__"
    /\ op = "get_divisions"
    /\ \E res \in Answers(DivisionDetails(local.response[local.i].DivisionId)) :
         LET division == local.response[local.i]
             detailed_division == res.body
         IN
         /\ requests' = Append(requests,
                [url |-> Url(base_endpoint, endpoint, kwargs), status |-> res.status,
                 body |-> res.body])
         /\ IF RaisesForStatus(res.status)
            THEN Raise("HTTPError") /\ UNCHANGED <<endpoint, local>>
            ELSE IF "Noes" \notin DOMAIN detailed_division
            THEN /\ local' = [local EXCEPT !.response[local.i] =
                                Update(division, "Ayes", detailed_division.Ayes)]
                 /\ Raise("KeyError")
                 /\ UNCHANGED endpoint
            ELSE LET response ==
                         [local.response EXCEPT ![local.i] =
                             Update(Update(division, "Ayes", detailed_division.Ayes),
                                    "Noes", detailed_division.Noes)]
                 IN  IF local.i < Len(response)
                     THEN /\ local' = [local EXCEPT !.response = response, !.i = @ + 1]
                          /\ endpoint' = DivisionPath(local.ENDPOINT,
                                                      response[local.i + 1].DivisionId)
                          /\ UNCHANGED <<pc, outcome, result>>
                     ELSE /\ local' = [local EXCEPT !.response = response]
                          /\ Return(response)
                          /\ UNCHANGED endpoint
    /\ UNCHANGED <<page_size_max, base_endpoint, upstream, op, kwargs, frames>>

InitDivisions ==
    /\ page_size_max = 0
    /\ base_endpoint = ""
    /\ upstream = <<>>
    /\ op = ""
    /\ pc = "idle"
    /\ endpoint = ""
    /\ kwargs = <<>>
    /\ frames = <<>>
    /\ requests = <<>>
    /\ local = <<>>
    /\ outcome = "pending"
    /\ result = None

NextDivisions ==
    \/ DivisionsInit
    \/ CallGetDivisions
    \/ SearchDivisions
    \/ FetchDivision

SpecDivisions == InitDivisions /\ [][NextDivisions]_vars

----------------------------------------------------------------------------
(* Properties of Divisions *)

\* a and b are the same string up to the case of their letters
EqualIgnoringCase(a, b) ==
    /\ Len(a) = Len(b)
    /\ \A i \in 1..Len(a) :
          \/ a[i] = b[i]
          \/ \E k \in 1..Len(UpperChars) : {a[i], b[i]} = {UpperChars[k], LowerChars[k]}

\* C4 (fail fast on a bad discriminator): constructing Divisions with a house
\* that is "commons" or "lords" up to case succeeds and selects that house's
\* endpoints; with any other house it raises ValueError; in neither case has
\* any request been issued.
C4_FailFastOnBadHouse ==
    op = "Divisions.__init__" =>
        /\ requests = <<>>
        /\ EqualIgnoringCase(local.house, Commons) =>
              /\ pc = "constructed" /\ outcome = "pending"
              /\ base_endpoint = COMMONS_ENDPOINT.base
        /\ EqualIgnoringCase(local.house, Lords) =>
              /\ pc = "constructed" /\ outcome = "pending"
              /\ base_endpoint = LORDS_ENDPOINT.base
        /\ ( /\ ~EqualIgnoringCase(local.house, Commons)
             /\ ~EqualIgnoringCase(local.house, Lords) ) =>
              /\ pc = "done" /\ outcome = "ValueError" /\ result = None

\* house = "upper" was rejected
C4_Witness ==
    /\ op = "Divisions.__init__"
    /\ local.house = <<"u", "p", "p", "e", "r">>
    /\ outcome = "ValueError"
    /\ requests = <<>>

\* house = "LoRdS" was accepted (the accepting case of C4)
C4_WitnessAccepted ==
    /\ op = "Divisions.__init__"
    /\ local.house = <<"L", "o", "R", "d", "S">>
    /\ pc = "constructed"

\* a division of the search result carrying the votes of a detail
WithVotes(division, detail) ==
    [f \in DOMAIN division \cup {"Ayes", "Noes"} |->
        IF f = "Ayes" THEN detail.Ayes
        ELSE IF f = "Noes" THEN detail.Noes
        ELSE division[f]]

\* C15 (enrichment depends on the house): get_divisions first requests the
\* house's search endpoint.  For a house spelling "lords" that is the only
\* request, and its response is returned as received.  For a house spelling
\* "commons" the k-th request after the search is the detail request for
\* the k-th division of the search result, there is one for every division
\* when the call returns, and the k-th division returned is the k-th search
\* result with the Ayes and Noes of the k-th detail response.
C15_DivisionsByHouse ==
    op = "get_divisions" =>
        /\ Len(requests) >= 1 =>
              /\ requests[1].url.base = local.ENDPOINT.base
              /\ requests[1].url.path = local.ENDPOINT.search
        /\ EqualIgnoringCase(local.house, Lords) =>
              /\ local.ENDPOINT = LORDS_ENDPOINT
              /\ Len(requests) <= 1
              /\ Len(requests) = 1 => pc = "done"
              /\ Len(requests) = 1 /\ Ok(1) =>
                    outcome = "returned" /\ result = <<Served(1)>>
        /\ EqualIgnoringCase(local.house, Commons) =>
              /\ local.ENDPOINT = COMMONS_ENDPOINT
              /\ \A i \in 2..Len(requests) :
                    /\ Ok(1) /\ i - 1 <= Len(Served(1))
                    /\ requests[i].url.base = COMMONS_ENDPOINT.base
                    /\ requests[i].url.path =
                          "division/" \o ToString(Served(1)[i - 1].DivisionId) \o ".json"
                    /\ requests[i].url.query = <<>>
              /\ outcome = "returned" =>
                    /\ AllOk
                    /\ Len(requests) = 1 + Len(Served(1))
                    /\ result[1] = [k \in 1..Len(Served(1)) |->
                                       WithVotes(Served(1)[k], Served(k + 1))]
              /\ ( /\ pc = "done" /\ AllOk
                   /\ \A i \in 2..Len(requests) : "Noes" \in DOMAIN Served(i) )
                   => outcome = "returned"

\* a commons call returned two different divisions, each with its own votes
C15_Witness ==
    /\ op = "get_divisions"
    /\ EqualIgnoringCase(local.house, Commons)
    /\ outcome = "returned"
    /\ Len(requests) = 3
    /\ Served(1)[1].DivisionId # Served(1)[2].DivisionId
    /\ result[1][1].Ayes # result[1][2].Ayes

\* a lords call returned a search result of two divisions after one request
C15_WitnessLords ==
    /\ op = "get_divisions"
    /\ EqualIgnoringCase(local.house, Lords)
    /\ outcome = "returned"
    /\ Len(requests) = 1
    /\ Len(result[1]) = 2

----------------------------------------------------------------------------
(* Calendar.__clean_types__ *)

CalendarBase == "https://whatson-api.parliament.uk/calendar/"
CalendarPageSizeMax == 31

TypeEndpoints == {"types/list.json", "categories/list.json", "locations/list.json"}

\* the type records an endpoint may list; one of them lacks its Id
TypeRecords ==
    { [Id |-> i, Name |-> n] : i \in 1..MaxTypeId, n \in {"a", "b"} } \cup
    { [Name |-> "a"] }

\* {k: v for k, v in t.items() if k != "Id"}
DropId(t) == [k \in DOMAIN t \ {"Id"} |-> t[k]]

RECURSIVE CleanTypesFrom(_, _)
\* the dict comprehension over raw_types, record by record
CleanTypesFrom(raw_types, d) ==
    IF raw_types = <<>> THEN d
    ELSE LET t == Head(raw_types)
         IN  CleanTypesFrom(Tail(raw_types), DictSet(d, t.Id, DropId(t)))

CallCleanTypes ==
    /\ pc = "idle"
    /\ \E ep \in TypeEndpoints :
         /\ op' = "__clean_types__"
         /\ pc' = "__fetch__"
         /\ endpoint' = ep
    /\ UNCHANGED <<page_size_max, base_endpoint, upstream, kwargs, frames,
                   requests, local, outcome, result>>

CleanTypes ==
    /\ pc = "__fetch__"
    /\ op = "__clean_types__"
    /\ \E status \in Statuses, raw_types \in SeqsUpTo(TypeRecords, MaxTypes) :
         /\ requests' = Append(requests,
                [url |-> Url(base_endpoint, endpoint, <<>>), status |-> status,
                 body |-> IF status = 200 THEN raw_types ELSE <<>>])
         /\ IF RaisesForStatus(status) THEN Raise("HTTPError")
            ELSE IF \E i \in 1..Len(raw_types) : "Id" \notin DOMAIN raw_types[i]
            THEN Raise("KeyError")
            ELSE Return(CleanTypesFrom(raw_types, <<>>))
    /\ UNCHANGED <<page_size_max, base_endpoint, upstream, op, endpoint, kwargs,
                   frames, local>>

InitTypes ==
    /\ page_size_max = CalendarPageSizeMax
    /\ base_endpoint = CalendarBase
    /\ upstream = <<>>
    /\ op = ""
    /\ pc = "idle"
    /\ endpoint = ""
    /\ kwargs = <<>>
    /\ frames = <<>>
    /\ requests = <<>>
    /\ local = <<>>
    /\ outcome = "pending"
    /\ result = None

NextTypes ==
    \/ CallCleanTypes
    \/ CleanTypes

SpecTypes == InitTypes /\ [][NextTypes]_vars

----------------------------------------------------------------------------
(* Properties of the reference normalizer *)

\* the position of the last record of raw with the given id
LastWithId(raw, id) ==
    CHOOSE i \in 1..Len(raw) :
        raw[i].Id = id /\ \A j \in (i + 1)..Len(raw) : raw[j].Id # id

\* C7 (normalizer, last write wins): the map returned by __clean_types__ has
\* exactly one key per distinct Id of the records fetched; the value under an
\* id is the last fetched record with that Id, without its Id field.
C7_LastWriteWins ==
    op = "__clean_types__" /\ outcome = "returned" =>
        LET raw == requests[1].body
            map == result[1]
            ids == {raw[i].Id : i \in 1..Len(raw)}
        IN  /\ Keys(map) = ids
            /\ Len(map) = Cardinality(ids)
            /\ \A id \in ids :
                  LET value == Get(map, id, <<>>) IN
                  /\ "Id" \notin DOMAIN value
                  /\ value = [Name |-> raw[LastWithId(raw, id)].Name]

\* ids [1, 2, 2], the two records of id 2 differing: the map has two keys and
\* key 2 holds the third record
C7_Witness ==
    /\ op = "__clean_types__" /\ outcome = "returned"
    /\ Len(requests[1].body) = 3
    /\ requests[1].body[1].Id = 1
    /\ requests[1].body[2] = [Id |-> 2, Name |-> "a"]
    /\ requests[1].body[3] = [Id |-> 2, Name |-> "b"]
    /\ Len(result[1]) = 2
    /\ Get(result[1], 2, <<>>) = [Name |-> "b"]

----------------------------------------------------------------------------
(* Bills.get_bills and Calendar.get_next_session_id                        *)
(* PAGE_SIZE_MAX of Bills (999) is scaled to 1..MaxPageSize.               *)

Dates == {None, <<"2024-01-01">>}       \* `date`: None or a str
SessionArgs == {None, <<5>>}            \* `session_id`: None or an int

\* the kwargs get_bills is called with
BillsArgs ==
    { <<>>,
      << <<"Session", 5>> >>,
      << <<"SearchTerm", 1>> >>,
      << <<"Session", 5>>, <<"Take", 1>> >> }

\* the bodies sessions/forDate.json may answer with
SessionBodies == { [SessionId |-> 7], [Message |-> "no session"] }

\* the filters under which the bill list may end up being requested
BillFilters ==
    { << <<"Session", 5>> >>, << <<"Session", 7>> >>,
      << <<"SearchTerm", 1>>, <<"Session", 7>> >> }

BillSummaries(r, n) == [i \in 1..n |-> [of |-> r, billId |-> i]]

\* the body of v1/Bills/{bill_id}
BillDetailOf(bill_id) == [billId |-> bill_id, longTitle |-> "title"]

\* variant: the separator is left out
BillPathNoSeparator(bill_id) == "v1/Bills" \o ToString(bill_id)

BillPath(bill_id) == "v1/Bills" \o "/" \o ToString(bill_id)

\* variant: only a call without any kwargs counts as lacking the selector
SessionMissingIfEmpty(kw) == kw = <<>>

\* "Session" not in kwargs
SessionMissing(kw) == "Session" \notin Keys(kw)

CallGetBills ==
    /\ pc = "idle"
    /\ base_endpoint = BillsBase
    /\ \E date \in Dates, kw \in BillsArgs, total \in 0..MaxRecords :
         /\ op' = "get_bills"
         /\ upstream' = [r \in {ResourceOf("v1/Bills", f) : f \in BillFilters} |->
                           BillSummaries(r, total)]
         /\ local' = [date |-> date, kwargs |-> kw, items |-> <<>>, i |-> 1,
                      bills |-> <<>>]
         /\ kwargs' = kw
         /\ IF date # None
            THEN /\ pc' = "get_session_id_for_date"
                 /\ endpoint' = "sessions/forDate.json/" \o date[1]
                 /\ UNCHANGED <<outcome, result>>
            ELSE IF SessionMissing(kw)
            THEN Raise("ValueError") /\ UNCHANGED endpoint
            ELSE /\ pc' = "__exhaustive_fetch__"
                 /\ endpoint' = "v1/Bills"
                 /\ UNCHANGED <<outcome, result>>
    /\ UNCHANGED <<page_size_max, base_endpoint, frames, requests>>

\* Calendar().get_session_id_for_date(date), and get_bills up to its
\* Session check
GetSessionIdForDate ==
    /\ pc = "get_session_id_for_date"
    /\ \E status \in Statuses, body \in SessionBodies :
         /\ requests' = Append(requests,
                [url |-> Url(CalendarBase, endpoint, <<>>), status |-> status,
                 body |-> IF status = 200 THEN body ELSE [Message |-> "error"]])
         /\ IF RaisesForStatus(status)
            THEN Raise("HTTPError") /\ UNCHANGED <<endpoint, kwargs>>
            ELSE IF "SessionId" \notin DOMAIN body
            THEN Raise("KeyError") /\ UNCHANGED <<endpoint, kwargs>>
            ELSE LET kw == DictSet(kwargs, "Session", body.SessionId) IN
                 /\ kwargs' = kw
                 /\ IF SessionMissing(kw)
                    THEN Raise("ValueError") /\ UNCHANGED endpoint
                    ELSE /\ pc' = "__exhaustive_fetch__"
                         /\ endpoint' = "v1/Bills"
                         /\ UNCHANGED <<outcome, result>>
    /\ UNCHANGED <<page_size_max, base_endpoint, upstream, op, frames, local>>

\* the bill list has been fetched: start the loop over its summaries
BillsListed(body) ==
    /\ frames' = <<>>
    /\ local' = [local EXCEPT !.items = body.items, !.i = 1, !.bills = <<>>]
    /\ IF body.items = <<>>
       THEN Return(<<>>) /\ UNCHANGED <<endpoint, kwargs>>
       ELSE /\ pc' = "__fetch__"
            /\ endpoint' = BillPath(body.items[1].billId)
            /\ kwargs' = <<>>
            /\ UNCHANGED <<outcome, result>>

FetchBillList ==
    /\ pc = "__exhaustive_fetch__"
    /\ op = "get_bills"
    /\ \E status \in Statuses :
         LET f == ExhaustiveFetchFrame(status) IN Frame(f, BillsListed(Unwound(f)))
    /\ UNCHANGED <<page_size_max, base_endpoint, upstream, op>>

\* one iteration of the loop over the summaries
FetchBillDetail ==
    /\ pc = "__fetch__"
    /\ op = "get_bills"
    /\ \E status \in Statuses :
         LET bill_id == local.items[local.i].billId
             bill == BillDetailOf(bill_id)
             bills == Append(local.bills, bill)
         IN  /\ requests' = Append(requests,
                    [url |-> Url(base_endpoint, endpoint, <<>>), status |-> status,
                     body |-> IF status = 200 THEN bill ELSE [Message |-> "error"]])
             /\ IF RaisesForStatus(status)
                THEN Raise("HTTPError") /\ UNCHANGED <<endpoint, local>>
                ELSE IF local.i < Len(local.items)
                THEN /\ local' = [local EXCEPT !.i = @ + 1, !.bills = bills]
                     /\ endpoint' = BillPath(local.items[local.i + 1].billId)
                     /\ UNCHANGED <<pc, outcome, result>>
                ELSE /\ local' = [local EXCEPT !.bills = bills]
                     /\ Return(bills)
                     /\ UNCHANGED endpoint
    /\ UNCHANGED <<page_size_max, base_endpoint, upstream, op, kwargs, frames>>

CallGetNextSessionId ==
    /\ pc = "idle"
    /\ base_endpoint = CalendarBase
    /\ \E date \in Dates, session_id \in SessionArgs :
         /\ op' = "get_next_session_id"
         /\ local' = [date |-> date, session_id |-> session_id]
         /\ IF date = None /\ session_id = None
            THEN Raise("ValueError") /\ UNCHANGED endpoint
            ELSE /\ pc' = "get_sessions"
                 /\ endpoint' = "sessions/list.json"
                 /\ UNCHANGED <<outcome, result>>
    /\ UNCHANGED <<page_size_max, base_endpoint, upstream, kwargs, frames, requests>>

\* all_sessions = self.get_sessions(); the method then ends without a return
GetSessions ==
    /\ pc = "get_sessions"
    /\ \E status \in Statuses :
         /\ requests' = Append(requests,
                [url |-> Url(base_endpoint, endpoint, <<>>), status |-> status,
                 body |-> [Message |-> "sessions"]])
         /\ IF RaisesForStatus(status)
            THEN Raise("HTTPError")
            ELSE pc' = "done" /\ outcome' = "returned" /\ result' = None
    /\ UNCHANGED <<page_size_max, base_endpoint, upstream, op, endpoint, kwargs,
                   frames, local>>

InitBills ==
    /\ page_size_max \in 1..MaxPageSize
    /\ base_endpoint \in {BillsBase, CalendarBase}
    /\ upstream = <<>>
    /\ op = ""
    /\ pc = "idle"
    /\ endpoint = ""
    /\ kwargs = <<>>
    /\ frames = <<>>
    /\ requests = <<>>
    /\ local = <<>>
    /\ outcome = "pending"
    /\ result = None

NextBills ==
    \/ CallGetBills
    \/ GetSessionIdForDate
    \/ FetchBillList
    \/ FetchBillDetail
    \/ CallGetNextSessionId
    \/ GetSessions

SpecBills == InitBills /\ [][NextBills]_vars

----------------------------------------------------------------------------
(* Properties of the selector checks *)

\* C9 (a missing selector fails before the network): get_bills called with
\* no date and no Session among its kwargs, and get_next_session_id called
\* with neither date nor session_id, have raised ValueError and no request
\* has been issued.
C9_MissingSelectorFailsFirst ==
    /\ ( /\ op = "get_bills"
         /\ local.date = None
         /\ "Session" \notin Keys(local.kwargs) ) =>
           /\ pc = "done" /\ outcome = "ValueError" /\ result = None
           /\ requests = <<>>
    /\ ( /\ op = "get_next_session_id"
         /\ local.date = None
         /\ local.session_id = None ) =>
           /\ pc = "done" /\ outcome = "ValueError" /\ result = None
           /\ requests = <<>>

\* get_bills(SearchTerm=1), without Session and without date, was rejected
C9_Witness ==
    /\ op = "get_bills"
    /\ local.date = None
    /\ local.kwargs = << <<"SearchTerm", 1>> >>
    /\ outcome = "ValueError"
    /\ requests = <<>>

\* get_next_session_id() was rejected
C9_WitnessNextSession ==
    /\ op = "get_next_session_id"
    /\ local.date = None /\ local.session_id = None
    /\ outcome = "ValueError"
    /\ requests = <<>>

----------------------------------------------------------------------------
(* Properties of get_bills *)

\* the position in the log of the first request for the bill list: the
\* session lookup comes before it when get_bills is called with a date
ListFrom == IF local.date = None THEN 1 ELSE 2

\* the requests for pages of the bill list
ListPages == { i \in ListFrom..Len(requests) : requests[i].url.path = "v1/Bills" }

\* the summaries of all list pages, in the order served
Summaries == Concat([i \in 1..Cardinality(ListPages) |-> Served(ListFrom + i - 1).items])

\* C16 (list first, then one detail request per summary): in get_bills with
\* a Session the requests for pages of the bill list come first and are
\* consecutive; the k-th request after them is the detail request for the
\* k-th summary of the list; a returned call has issued as many requests as
\* there are list pages and summaries and returns the detail responses in that
\* order; a detail request answered with an error is the last request, and
\* the call has raised and returned nothing.
C16_ListThenDetails ==
    op = "get_bills" /\ Len(requests) >= ListFrom =>
        LET pages == Cardinality(ListPages)
            last == ListFrom + pages - 1
        IN  /\ ListPages = ListFrom..last
            /\ \A i \in (last + 1)..Len(requests) :
                  /\ \A j \in ListPages : Ok(j)
                  /\ i - last <= Len(Summaries)
                  /\ requests[i].url.path =
                        "v1/Bills/" \o ToString(Summaries[i - last].billId)
                  /\ requests[i].url.query = <<>>
                  /\ ~Ok(i) =>
                        /\ i = Len(requests)
                        /\ pc = "done" /\ outcome = "HTTPError" /\ result = None
            /\ outcome = "returned" =>
                  /\ AllOk
                  /\ Len(requests) = (ListFrom - 1) + pages + Len(Summaries)
                  /\ Len(result[1]) = Len(Summaries)
                  /\ \A k \in 1..Len(Summaries) :
                        /\ result[1][k] = Served(last + k)
                        /\ result[1][k].billId = Summaries[k].billId

\* get_bills(Session=5) returned three details after two list pages
C16_Witness ==
    /\ op = "get_bills"
    /\ local.date = None
    /\ outcome = "returned"
    /\ Cardinality(ListPages) = 2
    /\ Len(result[1]) = 3
    /\ Len(requests) = 5

\* the second detail request failed: the detail already fetched is not returned
C16_WitnessAbort ==
    /\ op = "get_bills"
    /\ local.date = None
    /\ Len(local.bills) = 1
    /\ Len(requests) = Cardinality(ListPages) + 2
    /\ outcome = "HTTPError"
    /\ result = None

====
